---- MODULE Spec2Model ----
(***************************************************************************)
(* Session manager (src/context/AuthContext.tsx), API gateway              *)
(* (src/services/api.ts) and screens (src/app) of the bookstore client.    *)
(*                                                                         *)
(* Spec is the session manager with a screen's call beside it.  The        *)
(* screens have specifications of their own, each starting from a session  *)
(* at rest: SpecGateway (one call through both interceptors), SpecProfile  *)
(* (saving the profile), SpecMyBooks (the borrowed list), SpecDetail (one   *)
(* book) and SpecForms (the login and register forms).                     *)
(*                                                                         *)
(* Every async function is a process whose position is pc[o] = <<stage,    *)
(* phase>>.  An `await` of an AsyncStorage call is two steps: the storage  *)
(* operation takes effect (phase "eff"), later the continuation runs       *)
(* (phase "res").  An `await api.<verb>(...)` is three steps: the request  *)
(* interceptor's getItem takes effect (phase "read"), the interceptor's    *)
(* continuation sets the headers and the request is dispatched (phase      *)
(* "resume"), and the response arrives (phase "wait").  The synchronous    *)
(* code between two awaits is one step (React state setters called in one  *)
(* continuation are one state change).  Steps of different processes       *)
(* interleave freely: promises of separate calls carry no ordering.        *)
(***************************************************************************)
EXTENDS Integers, FiniteSets, Sequences, Bags, TLC

VARIABLES token, user, isAuthenticated, loading, pc, config, itoken, sent,
          held, storageFailed, removed, stale, run, delivered,
          form, profileScreen, myBooks, detail, server, catalog, calc

\* The session manager's and the gateway's state.
sessionVars == <<token, user, isAuthenticated, loading, pc, config, itoken,
                 sent, held, storageFailed, removed, stale, run, delivered>>

\* The screens' state and the server's.
screenVars == <<form, profileScreen, myBooks, detail, server, catalog, calc>>

vars == <<sessionVars, screenVars>>

(* ------------------------------ bounds --------------------------------- *)

\* Operations (session operations and gateway calls) in flight at one time.
MaxInFlight == 2

\* Times the user presses Return or pulls to refresh on the borrowed list.
MaxUserActions == 3

\* Longest password and longest name typed into a form.
MaxPasswordLen == 7
MaxNameLen == 3

(* ------------------------------ values --------------------------------- *)

Null == "null"

\* A screen that is not mounted.
NotMounted == [screen |-> "none"]

\* No helper function is being evaluated.
NoCall == [fn |-> "none"]

\* The server holds no loan.
NoLoans == [borrowed |-> << >>, taken |-> {}]
NoHeader == "absent"
Tokens == {"t1", "t2"}
Users == {"u1", "u2"}
\* HTTP outcomes of a failed call; 0 stands for "no response" (network
\* error, timeout, or a rejection raised before the request was sent).
FailStatus == {0, 400, 401, 500}

SessionOps == {"boot", "login", "register", "logout"}
Ops == SessionOps \cup {"call"}

Idle == <<"idle", "idle">>
Done == <<"done", "done">>

Bearer(t) == <<"Bearer", t>>

\* JavaScript truthiness of a stored string: null and "" are falsy.
Truthy(t) == t \notin {Null, ""}

\* `config.data instanceof FormData`
IsFormData(d) == d = "FormData"

NoConfig == [method |-> "none"]

\* axios.create defaults merged with the headers a caller passes.
CreateConfig(method, url, data, contentType) ==
  [method |-> method, url |-> url, data |-> data,
   ContentType |-> IF contentType = NoHeader THEN "application/json"
                   ELSE contentType,
   Authorization |-> NoHeader, _retry |-> FALSE]

\* The request interceptor's continuation after `await getItem("token")`.
RequestInterceptor_alwaysAttaches(cfg, t) ==
  LET c1 == [cfg EXCEPT !.Authorization = Bearer(t)]
  IN  IF ~IsFormData(c1.data)
      THEN [c1 EXCEPT !.ContentType = "application/json"] ELSE c1

RequestInterceptor_alwaysJson(cfg, t) ==
  LET c1 == IF Truthy(t) THEN [cfg EXCEPT !.Authorization = Bearer(t)] ELSE cfg
  IN  [c1 EXCEPT !.ContentType = "application/json"]

RequestInterceptor(cfg, t) ==
  LET c1 == IF Truthy(t) THEN [cfg EXCEPT !.Authorization = Bearer(t)] ELSE cfg
  IN  IF ~IsFormData(c1.data)
      THEN [c1 EXCEPT !.ContentType = "application/json"] ELSE c1

\* The response interceptor's rejected handler: the error it rejects with.
\* error.status is error.response?.status (0: no response); error.config is
\* NoConfig when the rejection was raised before a request existed.
ResponseInterceptor_noMark(error) == error

ResponseInterceptor(error) ==
  IF error.status = 401 /\ ~error.config._retry
  THEN [error EXCEPT !.config._retry = TRUE]
  ELSE error

\* No error is being delivered to the screen's call.
NoError == [raised |-> "none"]

\* The messages login and register throw.
LoginError_any4xx(status) ==
  IF status \in 400..499 THEN "Invalid email or password"
  ELSE "Login failed. Please try again."

LoginError(status) ==
  IF status = 400 THEN "Invalid email or password"
  ELSE "Login failed. Please try again."

RegisterError(status) == "Registration failed"

\* The calls the screens make through the gateway (method, path, body,
\* caller-supplied Content-Type), and one call with a non-upload body and a
\* caller-supplied Content-Type.
ScreenCalls ==
  { CreateConfig("get", "/books/borrowed", "none", NoHeader),
    CreateConfig("post", "/api/upload", "FormData", "multipart/form-data"),
    CreateConfig("delete", "/books/:id", "none", NoHeader),
    CreateConfig("post", "/books", "json", "text/plain") }

(* ------------------- record of an operation run alone ------------------ *)

NoRun == [op |-> "none"]

NewRun(o) ==
  [op |-> o, token |-> token, user |-> user,
   isAuthenticated |-> isAuthenticated, res |-> "pending", requests |-> 0,
   profile |-> Null, stage |-> "none", status |-> 0]

Quiescent == \A p \in SessionOps : pc[p] \in {Idle, Done}

RunStart(o) == IF Quiescent THEN NewRun(o) ELSE NoRun

RunDispatch(o) ==
  IF run.op = o THEN [run EXCEPT !.requests = @ + 1] ELSE run

RunEnd(o, res, stage, status, profile) ==
  IF run.op = o
  THEN [run EXCEPT !.res = res, !.stage = stage, !.status = status,
                   !.profile = profile]
  ELSE run

(* ------------------------------- Init ---------------------------------- *)

Init ==
  /\ token \in Tokens \cup {Null}
  /\ user = Null
  /\ isAuthenticated = FALSE
  /\ loading = TRUE
  /\ pc = [o \in Ops |-> IF o = "boot" THEN <<"getItem", "eff">> ELSE Idle]
  /\ config = [o \in Ops |-> NoConfig]
  /\ itoken = [o \in Ops |-> Null]
  /\ sent = [o \in Ops |-> NoConfig]
  /\ held = [o \in Ops |-> Null]
  /\ storageFailed = FALSE
  /\ removed = Null
  /\ stale = {}
  /\ delivered = NoError
  /\ form = NotMounted
  /\ profileScreen = NotMounted
  /\ myBooks = NotMounted
  /\ detail = NotMounted
  /\ server = NoLoans
  /\ catalog = NotMounted
  /\ calc = NoCall
  /\ run = [op |-> "boot", token |-> token, user |-> Null,
            isAuthenticated |-> FALSE, res |-> "pending", requests |-> 0,
            profile |-> Null, stage |-> "none", status |-> 0]

(* --------------------------- API gateway ------------------------------- *)

InFlight == {o \in Ops : pc[o] \notin {Idle, Done}}

\* A handler may be invoked while fewer than MaxInFlight operations run.
MayStart(o) == pc[o] = Idle /\ Cardinality(InFlight) < MaxInFlight

\* api.<verb>(...) is called: the interceptor starts and calls getItem.
ApiCall(o, stage, cfg) ==
  /\ pc' = [pc EXCEPT ![o] = <<stage, "read">>]
  /\ config' = [config EXCEPT ![o] = cfg]

\* The api call of o is over: its locals are dropped.
ApiReturn(o, next) ==
  /\ pc' = [pc EXCEPT ![o] = next]
  /\ config' = [config EXCEPT ![o] = NoConfig]
  /\ itoken' = [itoken EXCEPT ![o] = Null]
  /\ sent' = [sent EXCEPT ![o] = NoConfig]
  /\ stale' = stale \ {o}

\* `const token = await AsyncStorage.getItem("token")` takes effect. The
\* caller's credential response (held) is read by nothing after this point.
InterceptorRead(o) ==
  /\ pc[o][2] = "read"
  /\ itoken' = [itoken EXCEPT ![o] = token]
  /\ pc' = [pc EXCEPT ![o] = <<pc[o][1], "resume">>]
  /\ held' = [held EXCEPT ![o] = Null]
  /\ UNCHANGED <<token, user, isAuthenticated, loading, config, sent,
                 storageFailed, removed, stale, run>>
  /\ UNCHANGED <<delivered, screenVars>>

\* The interceptor's continuation; axios then dispatches the request.
InterceptorResume(o) ==
  /\ pc[o][2] = "resume"
  /\ sent' = [sent EXCEPT ![o] = RequestInterceptor(config[o], itoken[o])]
  /\ pc' = [pc EXCEPT ![o] = <<pc[o][1], "wait">>]
  /\ run' = RunDispatch(o)
  /\ UNCHANGED <<token, user, isAuthenticated, loading, config, itoken, held,
                 storageFailed, removed, stale>>
  /\ UNCHANGED <<delivered, screenVars>>

\* The api call of o at `stage` rejects with `status`: an error response or
\* no response for a dispatched request, or the interceptor's getItem
\* rejecting before dispatch.
ApiRejects(o, stage, status) ==
  \/ /\ pc[o] = <<stage, "wait">>
     /\ \E s \in FailStatus :
          status = ResponseInterceptor([status |-> s, config |-> sent[o]]).status
     /\ UNCHANGED storageFailed
  \/ /\ pc[o] = <<stage, "read">>
     /\ status = ResponseInterceptor([status |-> 0, config |-> NoConfig]).status
     /\ storageFailed' = TRUE

\* An AsyncStorage call of o at `stage` rejects; nothing is stored or removed.
StorageRejects(o, stage) ==
  /\ pc[o] = <<stage, "eff">>
  /\ storageFailed' = TRUE

\* Requests whose interceptor read the token that the logout now completing
\* removed, and that are not dispatched yet.
StaleReads ==
  {o \in Ops : pc[o][2] = "resume" /\ removed # Null /\ itoken[o] = removed}

\* setItem("token", t) takes effect: t is the persisted token again.
Persist(t) ==
  /\ token' = t
  /\ removed' = IF removed = t THEN Null ELSE removed
  /\ stale' = {o \in stale : pc[o][2] = "wait" \/ itoken[o] # t}

(* ------------------------ loadAuthState (boot) ------------------------- *)

loadAuthState_getItem ==
  /\ pc["boot"] = <<"getItem", "eff">>
  /\ held' = [held EXCEPT !["boot"] = token]
  /\ pc' = [pc EXCEPT !["boot"] = <<"getItem", "res">>]
  /\ UNCHANGED <<token, user, isAuthenticated, loading, config, itoken, sent,
                 storageFailed, removed, stale, run>>
  /\ UNCHANGED <<delivered, screenVars>>

\* `if (token)`: fetch the profile, or fall through to finally.
loadAuthState_token ==
  /\ pc["boot"] = <<"getItem", "res">>
  /\ IF Truthy(held["boot"])
     THEN /\ ApiCall("boot", "me", CreateConfig("get", "/auth/me", "none", NoHeader))
          /\ UNCHANGED <<loading, run>>
     ELSE /\ loading' = FALSE
          /\ pc' = [pc EXCEPT !["boot"] = Done]
          /\ run' = RunEnd("boot", "ok", "none", 0, Null)
          /\ UNCHANGED config
  /\ held' = [held EXCEPT !["boot"] = Null]
  /\ UNCHANGED <<token, user, isAuthenticated, itoken, sent, storageFailed,
                 removed, stale>>
  /\ UNCHANGED <<delivered, screenVars>>

loadAuthState_me_ok(u) ==
  /\ pc["boot"] = <<"me", "wait">>
  /\ user' = u
  /\ isAuthenticated' = TRUE
  /\ loading' = FALSE
  /\ ApiReturn("boot", Done)
  /\ run' = RunEnd("boot", "ok", "none", 0, u)
  /\ UNCHANGED <<token, held, storageFailed, removed>>
  /\ UNCHANGED <<delivered, screenVars>>

\* catch: console.error, then removeItem is called.
loadAuthState_catch_keepsToken(stage, status) ==
  /\ \/ ApiRejects("boot", stage, status)
     \/ StorageRejects("boot", stage) /\ status = 0
  /\ loading' = FALSE
  /\ ApiReturn("boot", Done)
  /\ held' = [held EXCEPT !["boot"] = Null]
  /\ run' = RunEnd("boot", "ok", stage, status, Null)
  /\ UNCHANGED <<token, user, isAuthenticated, removed>>
  /\ UNCHANGED <<delivered, screenVars>>

loadAuthState_catch(stage, status) ==
  /\ \/ ApiRejects("boot", stage, status)
     \/ StorageRejects("boot", stage) /\ status = 0
  /\ ApiReturn("boot", <<"removeItem", "eff">>)
  /\ held' = [held EXCEPT !["boot"] = Null]
  /\ run' = IF run.op = "boot"
            THEN [run EXCEPT !.stage = stage, !.status = status] ELSE run
  /\ UNCHANGED <<token, user, isAuthenticated, loading, removed>>
  /\ UNCHANGED <<delivered, screenVars>>

loadAuthState_removeItem ==
  /\ pc["boot"] = <<"removeItem", "eff">>
  /\ token' = Null
  /\ pc' = [pc EXCEPT !["boot"] = <<"removeItem", "res">>]
  /\ UNCHANGED <<user, isAuthenticated, loading, config, itoken, sent, held,
                 storageFailed, removed, stale, run>>
  /\ UNCHANGED <<delivered, screenVars>>

\* removeItem inside catch rejects: finally runs and loadAuthState rejects.
loadAuthState_removeItem_reject ==
  /\ StorageRejects("boot", "removeItem")
  /\ loading' = FALSE
  /\ pc' = [pc EXCEPT !["boot"] = Done]
  /\ run' = IF run.op = "boot" THEN [run EXCEPT !.res = "rejected"] ELSE run
  /\ UNCHANGED <<token, user, isAuthenticated, config, itoken, sent, held,
                 removed, stale>>
  /\ UNCHANGED <<delivered, screenVars>>

loadAuthState_finally ==
  /\ pc["boot"] = <<"removeItem", "res">>
  /\ loading' = FALSE
  /\ pc' = [pc EXCEPT !["boot"] = Done]
  /\ run' = IF run.op = "boot" THEN [run EXCEPT !.res = "ok"] ELSE run
  /\ UNCHANGED <<token, user, isAuthenticated, config, itoken, sent, held,
                 storageFailed, removed, stale>>
  /\ UNCHANGED <<delivered, screenVars>>

(* ------------------------------ login ---------------------------------- *)

\* login(email, password) up to its first await.
login_start ==
  /\ MayStart("login")
  /\ loading' = TRUE
  /\ ApiCall("login", "post", CreateConfig("post", "/auth/login", "json", NoHeader))
  /\ run' = RunStart("login")
  /\ UNCHANGED <<token, user, isAuthenticated, itoken, sent, held,
                 storageFailed, removed, stale, delivered>>

login_call ==
  /\ login_start
  /\ UNCHANGED screenVars

\* The POST resolved with response.data.token = t; setItem is called.
login_post_ok(t) ==
  /\ pc["login"] = <<"post", "wait">>
  /\ held' = [held EXCEPT !["login"] = t]
  /\ ApiReturn("login", <<"setItem", "eff">>)
  /\ UNCHANGED <<token, user, isAuthenticated, loading, storageFailed,
                 removed, run>>
  /\ UNCHANGED <<delivered, screenVars>>

login_setItem ==
  /\ pc["login"] = <<"setItem", "eff">>
  /\ Persist(held["login"])
  /\ pc' = [pc EXCEPT !["login"] = <<"setItem", "res">>]
  /\ UNCHANGED <<user, isAuthenticated, loading, config, itoken, sent, held,
                 storageFailed, run>>
  /\ UNCHANGED <<delivered, screenVars>>

login_getMe ==
  /\ pc["login"] = <<"setItem", "res">>
  /\ ApiCall("login", "me", CreateConfig("get", "/auth/me", "none", NoHeader))
  /\ UNCHANGED <<token, user, isAuthenticated, loading, itoken, sent, held,
                 storageFailed, removed, stale, run>>
  /\ UNCHANGED <<delivered, screenVars>>

login_me_ok(u) ==
  /\ pc["login"] = <<"me", "wait">>
  /\ user' = u
  /\ isAuthenticated' = TRUE
  /\ loading' = FALSE
  /\ ApiReturn("login", Idle)
  /\ run' = RunEnd("login", "ok", "none", 0, u)
  /\ UNCHANGED <<token, held, storageFailed, removed>>
  /\ UNCHANGED <<delivered, screenVars>>

\* catch: the error is classified and thrown; finally: setLoading(false).
login_catch_clearsSession(stage, status) ==
  /\ \/ ApiRejects("login", stage, status)
     \/ StorageRejects("login", stage) /\ status = 0
  /\ user' = Null
  /\ isAuthenticated' = FALSE
  /\ loading' = FALSE
  /\ ApiReturn("login", Idle)
  /\ held' = [held EXCEPT !["login"] = Null]
  /\ run' = RunEnd("login", LoginError(status), stage, status, Null)
  /\ UNCHANGED <<token, removed>>
  /\ UNCHANGED <<delivered, screenVars>>

login_catch(stage, status) ==
  /\ \/ ApiRejects("login", stage, status)
     \/ StorageRejects("login", stage) /\ status = 0
  /\ loading' = FALSE
  /\ ApiReturn("login", Idle)
  /\ held' = [held EXCEPT !["login"] = Null]
  /\ run' = RunEnd("login", LoginError(status), stage, status, Null)
  /\ UNCHANGED <<token, user, isAuthenticated, removed>>
  /\ UNCHANGED <<delivered, screenVars>>

(* ----------------------------- register -------------------------------- *)

\* register(name, email, password) up to its first await.
register_start ==
  /\ MayStart("register")
  /\ loading' = TRUE
  /\ ApiCall("register", "post",
             CreateConfig("post", "/auth/register", "json", NoHeader))
  /\ run' = RunStart("register")
  /\ UNCHANGED <<token, user, isAuthenticated, itoken, sent, held,
                 storageFailed, removed, stale, delivered>>

register_call ==
  /\ register_start
  /\ UNCHANGED screenVars

register_post_ok(t) ==
  /\ pc["register"] = <<"post", "wait">>
  /\ held' = [held EXCEPT !["register"] = t]
  /\ ApiReturn("register", <<"setItem", "eff">>)
  /\ UNCHANGED <<token, user, isAuthenticated, loading, storageFailed,
                 removed, run>>
  /\ UNCHANGED <<delivered, screenVars>>

register_setItem ==
  /\ pc["register"] = <<"setItem", "eff">>
  /\ Persist(held["register"])
  /\ pc' = [pc EXCEPT !["register"] = <<"setItem", "res">>]
  /\ UNCHANGED <<user, isAuthenticated, loading, config, itoken, sent, held,
                 storageFailed, run>>
  /\ UNCHANGED <<delivered, screenVars>>

register_getMe ==
  /\ pc["register"] = <<"setItem", "res">>
  /\ ApiCall("register", "me", CreateConfig("get", "/auth/me", "none", NoHeader))
  /\ UNCHANGED <<token, user, isAuthenticated, loading, itoken, sent, held,
                 storageFailed, removed, stale, run>>
  /\ UNCHANGED <<delivered, screenVars>>

register_me_ok(u) ==
  /\ pc["register"] = <<"me", "wait">>
  /\ user' = u
  /\ isAuthenticated' = TRUE
  /\ loading' = FALSE
  /\ ApiReturn("register", Idle)
  /\ run' = RunEnd("register", "ok", "none", 0, u)
  /\ UNCHANGED <<token, held, storageFailed, removed>>
  /\ UNCHANGED <<delivered, screenVars>>

register_catch(stage, status) ==
  /\ \/ ApiRejects("register", stage, status)
     \/ StorageRejects("register", stage) /\ status = 0
  /\ loading' = FALSE
  /\ ApiReturn("register", Idle)
  /\ held' = [held EXCEPT !["register"] = Null]
  /\ run' = RunEnd("register", RegisterError(status), stage, status, Null)
  /\ UNCHANGED <<token, user, isAuthenticated, removed>>
  /\ UNCHANGED <<delivered, screenVars>>

(* ------------------------------ logout --------------------------------- *)

logout_call ==
  /\ MayStart("logout")
  /\ pc' = [pc EXCEPT !["logout"] = <<"removeItem", "eff">>]
  /\ run' = RunStart("logout")
  /\ UNCHANGED <<token, user, isAuthenticated, loading, config, itoken, sent,
                 held, storageFailed, removed, stale>>
  /\ UNCHANGED <<delivered, screenVars>>

\* `await AsyncStorage.removeItem("token")` takes effect.
logout_removeItem_wrongKey ==
  /\ pc["logout"] = <<"removeItem", "eff">>
  /\ pc' = [pc EXCEPT !["logout"] = <<"removeItem", "res">>]
  /\ UNCHANGED <<token, user, isAuthenticated, loading, config, itoken, sent,
                 held, storageFailed, removed, stale, run>>
  /\ UNCHANGED <<delivered, screenVars>>

logout_removeItem ==
  /\ pc["logout"] = <<"removeItem", "eff">>
  /\ removed' = token
  /\ token' = Null
  /\ pc' = [pc EXCEPT !["logout"] = <<"removeItem", "res">>]
  /\ UNCHANGED <<user, isAuthenticated, loading, config, itoken, sent, held,
                 storageFailed, stale, run>>
  /\ UNCHANGED <<delivered, screenVars>>

logout_removeItem_reject ==
  /\ StorageRejects("logout", "removeItem")
  /\ pc' = [pc EXCEPT !["logout"] = Idle]
  /\ run' = RunEnd("logout", "rejected", "removeItem", 0, Null)
  /\ UNCHANGED <<token, user, isAuthenticated, loading, config, itoken, sent,
                 held, removed, stale>>
  /\ UNCHANGED <<delivered, screenVars>>

\* The continuation: setUser(null); setIsAuthenticated(false).
logout_finish_keepsFlag ==
  /\ pc["logout"] = <<"removeItem", "res">>
  /\ user' = Null
  /\ pc' = [pc EXCEPT !["logout"] = Idle]
  /\ stale' = stale \cup StaleReads
  /\ removed' = Null
  /\ run' = RunEnd("logout", "ok", "none", 0, Null)
  /\ UNCHANGED <<token, isAuthenticated, loading, config, itoken, sent, held,
                 storageFailed>>
  /\ UNCHANGED <<delivered, screenVars>>

logout_finish ==
  /\ pc["logout"] = <<"removeItem", "res">>
  /\ user' = Null
  /\ isAuthenticated' = FALSE
  /\ pc' = [pc EXCEPT !["logout"] = Idle]
  /\ stale' = stale \cup StaleReads
  /\ removed' = Null
  /\ run' = RunEnd("logout", "ok", "none", 0, Null)
  /\ UNCHANGED <<token, loading, config, itoken, sent, held, storageFailed>>
  /\ UNCHANGED <<delivered, screenVars>>

(* ------------------- a screen's call through the gateway --------------- *)

call_start(cfg) ==
  /\ MayStart("call")
  /\ ApiCall("call", "req", cfg)
  /\ UNCHANGED <<token, user, isAuthenticated, loading, itoken, sent, held,
                 storageFailed, removed, stale, run>>
  /\ UNCHANGED <<delivered, screenVars>>

call_ok ==
  /\ pc["call"] = <<"req", "wait">>
  /\ ApiReturn("call", Idle)
  /\ UNCHANGED <<token, user, isAuthenticated, loading, held, storageFailed,
                 removed, run>>
  /\ UNCHANGED <<delivered, screenVars>>

call_catch_clearsOn401(status) ==
  /\ ApiRejects("call", "req", status)
  /\ ApiReturn("call", Idle)
  /\ token' = IF status = 401 THEN Null ELSE token
  /\ UNCHANGED <<user, isAuthenticated, loading, held, removed, run>>
  /\ UNCHANGED <<delivered, screenVars>>

call_catch(status) ==
  /\ ApiRejects("call", "req", status)
  /\ ApiReturn("call", Idle)
  /\ UNCHANGED <<token, user, isAuthenticated, loading, held, removed, run>>
  /\ UNCHANGED <<delivered, screenVars>>

(* ------------------------------- Next ---------------------------------- *)

Next ==
  \/ \E o \in Ops : InterceptorRead(o)
  \/ \E o \in Ops : InterceptorResume(o)
  \/ loadAuthState_getItem
  \/ loadAuthState_token
  \/ \E u \in Users : loadAuthState_me_ok(u)
  \/ \E s \in {"getItem", "me"}, st \in FailStatus : loadAuthState_catch(s, st)
  \/ loadAuthState_removeItem
  \/ loadAuthState_removeItem_reject
  \/ loadAuthState_finally
  \/ login_call
  \/ \E t \in Tokens : login_post_ok(t)
  \/ login_setItem
  \/ login_getMe
  \/ \E u \in Users : login_me_ok(u)
  \/ \E s \in {"post", "setItem", "me"}, st \in FailStatus : login_catch(s, st)
  \/ register_call
  \/ \E t \in Tokens : register_post_ok(t)
  \/ register_setItem
  \/ register_getMe
  \/ \E u \in Users : register_me_ok(u)
  \/ \E s \in {"post", "setItem", "me"}, st \in FailStatus : register_catch(s, st)
  \/ logout_call
  \/ logout_removeItem
  \/ logout_removeItem_reject
  \/ logout_finish
  \/ \E c \in ScreenCalls : call_start(c)
  \/ call_ok
  \/ \E st \in FailStatus : call_catch(st)

Spec == Init /\ [][Next]_vars

(* ---------------- the gateway's rejection path, step by step ----------- *)

\* The session at rest: bootstrap is over and no operation is running.
AtRest ==
  /\ \/ token \in Tokens /\ user \in Users /\ isAuthenticated = TRUE
     \/ token = Null /\ user = Null /\ isAuthenticated = FALSE
  /\ loading = FALSE
  /\ pc = [o \in Ops |-> IF o = "boot" THEN Done ELSE Idle]
  /\ config = [o \in Ops |-> NoConfig]
  /\ itoken = [o \in Ops |-> Null]
  /\ sent = [o \in Ops |-> NoConfig]
  /\ held = [o \in Ops |-> Null]
  /\ storageFailed = FALSE
  /\ removed = Null
  /\ stale = {}
  /\ run = NoRun
  /\ delivered = NoError

InitGateway ==
  /\ AtRest
  /\ form = NotMounted
  /\ profileScreen = NotMounted
  /\ myBooks = NotMounted
  /\ detail = NotMounted
  /\ server = NoLoans
  /\ catalog = NotMounted
  /\ calc = NoCall

\* The call rejects: the response interceptor's rejected handler runs and
\* rejects with the error the screen's catch will receive.
call_rejected(status) ==
  /\ \/ /\ pc["call"] = <<"req", "wait">>
        /\ status \in FailStatus
        /\ delivered' =
             [raised |-> [status |-> status, config |-> sent["call"]],
              error |-> ResponseInterceptor(
                          [status |-> status, config |-> sent["call"]])]
        /\ UNCHANGED storageFailed
     \/ /\ pc["call"] = <<"req", "read">>
        /\ status = 0
        /\ delivered' =
             [raised |-> [status |-> 0, config |-> NoConfig],
              error |-> ResponseInterceptor(
                          [status |-> 0, config |-> NoConfig])]
        /\ storageFailed' = TRUE
  /\ pc' = [pc EXCEPT !["call"] = <<"req", "rejected">>]
  /\ UNCHANGED <<token, user, isAuthenticated, loading, config, itoken, sent,
                 held, removed, stale, run, screenVars>>

\* The screen's catch has received the error.
call_caught ==
  /\ pc["call"] = <<"req", "rejected">>
  /\ ApiReturn("call", Idle)
  /\ delivered' = NoError
  /\ UNCHANGED <<token, user, isAuthenticated, loading, held, storageFailed,
                 removed, run, screenVars>>

NextGateway ==
  \/ \E c \in ScreenCalls : call_start(c)
  \/ InterceptorRead("call")
  \/ InterceptorResume("call")
  \/ call_ok
  \/ \E st \in FailStatus : call_rejected(st)
  \/ call_caught
  \/ logout_call
  \/ logout_removeItem
  \/ logout_removeItem_reject
  \/ logout_finish

SpecGateway == InitGateway /\ [][NextGateway]_vars

(* ------------------ profile screen: handleSaveProfile ------------------ *)

\* The members of the value AuthContext.Provider passes down.
ContextValue ==
  {"isAuthenticated", "user", "login", "register", "logout", "loading"}

\* Destructuring a member the context value lacks yields undefined.
Provided(member) == member \in ContextValue

otherThanProfile ==
  <<sessionVars, form, myBooks, detail, server, catalog, calc>>

\* The mounted profile screen of an authenticated user; `put` records how
\* the last PUT /auth/me ended and `response` what it returned.
InitProfile ==
  /\ AtRest
  /\ isAuthenticated
  /\ profileScreen =
       [screen |-> "profile", pc |-> "idle", editing |-> FALSE,
        saving |-> FALSE, tempImage |-> Null, toast |-> "none",
        put |-> "none", response |-> Null, before |-> user]
  /\ form = NotMounted
  /\ myBooks = NotMounted
  /\ detail = NotMounted
  /\ server = NoLoans
  /\ catalog = NotMounted
  /\ calc = NoCall

\* The screen renders its controls only while isAuthenticated.
handleEditProfile ==
  /\ isAuthenticated
  /\ profileScreen.pc = "idle"
  /\ ~profileScreen.editing
  /\ profileScreen' = [profileScreen EXCEPT !.editing = TRUE]
  /\ UNCHANGED otherThanProfile

\* pickImage resolved with an image: setTempImage(result.assets[0]).
pickImage ==
  /\ isAuthenticated
  /\ profileScreen.editing
  /\ profileScreen.tempImage = Null
  /\ profileScreen' = [profileScreen EXCEPT !.tempImage = "image"]
  /\ UNCHANGED otherThanProfile

\* setSaving(true); with an image picked the upload is awaited first.
handleSaveProfile_call ==
  /\ isAuthenticated
  /\ profileScreen.pc = "idle"
  /\ profileScreen.editing
  /\ ~profileScreen.saving
  /\ profileScreen' =
       [profileScreen EXCEPT
          !.saving = TRUE,
          !.pc = IF profileScreen.tempImage # Null THEN "upload" ELSE "put",
          !.toast = "none", !.put = "none", !.response = Null,
          !.before = user]
  /\ UNCHANGED otherThanProfile

\* The upload resolved; PUT /auth/me is called.
handleSaveProfile_upload_ok ==
  /\ profileScreen.pc = "upload"
  /\ profileScreen' = [profileScreen EXCEPT !.pc = "put"]
  /\ UNCHANGED otherThanProfile

\* The upload rejected: the inner catch throws, the outer catch shows the
\* error toast and finally resets saving.
handleSaveProfile_upload_catch ==
  /\ profileScreen.pc = "upload"
  /\ profileScreen' =
       [profileScreen EXCEPT !.pc = "idle", !.saving = FALSE,
                             !.toast = "error", !.put = "not sent"]
  /\ UNCHANGED otherThanProfile

\* PUT /auth/me resolved with response.data = u.  updateUser is undefined
\* (the context value has no such member), so calling it throws a TypeError:
\* the catch shows the error toast and finally resets saving.
handleSaveProfile_put_ok(u) ==
  /\ profileScreen.pc = "put"
  /\ ~Provided("updateUser")
  /\ profileScreen' =
       [profileScreen EXCEPT !.pc = "idle", !.saving = FALSE,
                             !.toast = "error", !.put = "ok",
                             !.response = u]
  /\ UNCHANGED otherThanProfile

\* PUT /auth/me rejected.
handleSaveProfile_put_catch ==
  /\ profileScreen.pc = "put"
  /\ profileScreen' =
       [profileScreen EXCEPT !.pc = "idle", !.saving = FALSE,
                             !.toast = "error", !.put = "failed"]
  /\ UNCHANGED otherThanProfile

\* The confirmed Logout button: a toast, then logout() is called.
handleLogout ==
  /\ isAuthenticated
  /\ logout_call

NextProfile ==
  \/ handleEditProfile
  \/ pickImage
  \/ handleSaveProfile_call
  \/ handleSaveProfile_upload_ok
  \/ handleSaveProfile_upload_catch
  \/ \E u \in Users : handleSaveProfile_put_ok(u)
  \/ handleSaveProfile_put_catch
  \/ handleLogout
  \/ logout_removeItem
  \/ logout_removeItem_reject
  \/ logout_finish

SpecProfile == InitProfile /\ [][NextProfile]_vars

(* --------------------- borrowed list: MyBooksScreen -------------------- *)

Books == {"b1", "b2"}

\* prevBooks.filter((book) => book._id !== bookId)
WithoutBook(list, bookId) == SelectSeq(list, LAMBDA b : b # bookId)

Listed(list) == {list[i] : i \in DOMAIN list}

\* A request of the screen: on its way to the server ("sent") or answered
\* and on its way back ("answered"); `after` is the book whose failed return
\* called the fetch, `data` the response body.
Request(kind, book, after) ==
  [kind |-> kind, book |-> book, after |-> after, stage |-> "sent",
   ok |-> FALSE, data |-> << >>]

NoRequest == [kind |-> "none"]

\* The requests in flight are a bag: two of them may be alike.
Add(requests, r) == requests (+) SetToBag({r})

Remove(requests, r) == requests (-) SetToBag({r})

otherThanMyBooks ==
  <<sessionVars, form, profileScreen, detail, catalog, calc>>

\* The screen is mounted by an authenticated user and its effect has called
\* fetchBooks.
InitMyBooks ==
  /\ AtRest
  /\ token = "t1"
  /\ user = "u1"
  /\ server \in {[borrowed |-> l, taken |-> {}] :
                   l \in {<<"b1">>, <<"b1", "b2">>, <<"b2", "b1">>}}
  /\ myBooks =
       [screen |-> "myBooks", books |-> << >>, loading |-> TRUE,
        refreshing |-> TRUE, returningBookId |-> Null, toast |-> "none",
        requests |-> SetToBag({Request("fetch", Null, Null)}),
        pressed |-> 0, last |-> NoRequest]
  /\ form = NotMounted
  /\ profileScreen = NotMounted
  /\ detail = NotMounted
  /\ catalog = NotMounted
  /\ calc = NoCall

Pending(kind, stage) ==
  {r \in BagToSet(myBooks.requests) : r.kind = kind /\ r.stage = stage}

\* The synchronous part of fetchBooks(): setRefreshing(true), api.get called.
fetchBooks_call(m, after) ==
  [m EXCEPT !.refreshing = TRUE,
            !.requests = Add(@, Request("fetch", Null, after))]

\* Pull to refresh (the list is rendered once loading is false).
onRefresh ==
  /\ ~myBooks.loading
  /\ myBooks.pressed < MaxUserActions
  /\ myBooks' = [fetchBooks_call(myBooks, Null) EXCEPT !.pressed = @ + 1]
  /\ UNCHANGED <<otherThanMyBooks, server>>

\* The server answers GET /books/borrowed with the user's loans, or fails.
server_borrowed(r, ok) ==
  /\ r \in Pending("fetch", "sent")
  /\ myBooks' =
       [myBooks EXCEPT !.requests =
          Add(Remove(@, r),
              [r EXCEPT !.stage = "answered", !.ok = ok,
                        !.data = IF ok THEN server.borrowed ELSE << >>])]
  /\ UNCHANGED <<otherThanMyBooks, server>>

\* setBooks(response.data); finally.
fetchBooks_ok_dropsStale(r) ==
  /\ r \in Pending("fetch", "answered")
  /\ r.ok
  /\ myBooks' =
       [myBooks EXCEPT
          !.books = IF r.data = server.borrowed THEN r.data ELSE @,
          !.loading = FALSE, !.refreshing = FALSE,
          !.requests = Remove(@, r), !.last = r]
  /\ UNCHANGED <<otherThanMyBooks, server>>

fetchBooks_ok(r) ==
  /\ r \in Pending("fetch", "answered")
  /\ r.ok
  /\ myBooks' =
       [myBooks EXCEPT !.books = r.data, !.loading = FALSE,
                       !.refreshing = FALSE, !.requests = Remove(@, r),
                       !.last = r]
  /\ UNCHANGED <<otherThanMyBooks, server>>

\* catch: error toast; finally.
fetchBooks_catch(r) ==
  /\ r \in Pending("fetch", "answered")
  /\ ~r.ok
  /\ myBooks' =
       [myBooks EXCEPT !.toast = "error", !.loading = FALSE,
                       !.refreshing = FALSE, !.requests = Remove(@, r),
                       !.last = r]
  /\ UNCHANGED <<otherThanMyBooks, server>>

\* The Return button of a listed book is pressed; it is disabled only for
\* the book in returningBookId.
handleReturnBook_call(bookId) ==
  /\ ~myBooks.loading
  /\ bookId \in Listed(myBooks.books)
  /\ myBooks.returningBookId # bookId
  /\ myBooks.pressed < MaxUserActions
  /\ myBooks' =
       [myBooks EXCEPT
          !.returningBookId = bookId,
          !.requests = Add(@, Request("return", bookId, Null)),
          !.pressed = @ + 1]
  /\ UNCHANGED <<otherThanMyBooks, server>>

\* The server handles POST /books/:id/return: it ends the loan and answers
\* success, or answers an error (always so when the user holds no such loan)
\* and changes nothing.
server_return(r, ok) ==
  /\ r \in Pending("return", "sent")
  /\ ok => r.book \in Listed(server.borrowed)
  /\ server' = IF ok
               THEN [server EXCEPT !.borrowed = WithoutBook(@, r.book)]
               ELSE server
  /\ myBooks' =
       [myBooks EXCEPT !.requests =
          Add(Remove(@, r), [r EXCEPT !.stage = "answered", !.ok = ok])]
  /\ UNCHANGED otherThanMyBooks

\* The POST resolved: the book is filtered out, success toast; finally.
handleReturnBook_ok(r) ==
  /\ r \in Pending("return", "answered")
  /\ r.ok
  /\ myBooks' =
       [myBooks EXCEPT !.books = WithoutBook(@, r.book),
                       !.toast = "success", !.returningBookId = Null,
                       !.requests = Remove(@, r), !.last = r]
  /\ UNCHANGED <<otherThanMyBooks, server>>

\* The POST rejected: error toast, fetchBooks() is called and not awaited;
\* finally.
handleReturnBook_catch_noFetch(r) ==
  /\ r \in Pending("return", "answered")
  /\ ~r.ok
  /\ myBooks' =
       [myBooks EXCEPT !.toast = "error", !.returningBookId = Null,
                       !.requests = Remove(@, r), !.last = r]
  /\ UNCHANGED <<otherThanMyBooks, server>>

handleReturnBook_catch(r) ==
  /\ r \in Pending("return", "answered")
  /\ ~r.ok
  /\ myBooks' =
       [fetchBooks_call(myBooks, r.book) EXCEPT
          !.toast = "error", !.returningBookId = Null,
          !.requests = Remove(@, r), !.last = r]
  /\ UNCHANGED <<otherThanMyBooks, server>>

NextMyBooks ==
  \/ onRefresh
  \/ \E r \in BagToSet(myBooks.requests), ok \in BOOLEAN : server_borrowed(r, ok)
  \/ \E r \in BagToSet(myBooks.requests) : fetchBooks_ok(r)
  \/ \E r \in BagToSet(myBooks.requests) : fetchBooks_catch(r)
  \/ \E b \in Books : handleReturnBook_call(b)
  \/ \E r \in BagToSet(myBooks.requests), ok \in BOOLEAN : server_return(r, ok)
  \/ \E r \in BagToSet(myBooks.requests) : handleReturnBook_ok(r)
  \/ \E r \in BagToSet(myBooks.requests) : handleReturnBook_catch(r)

SpecMyBooks == InitMyBooks /\ [][NextMyBooks]_vars

(* ------------------- book detail: BookDetailScreen --------------------- *)

\* useState<Book | null>(null)
NoBook ==
  [loaded |-> FALSE, _id |-> Null, isAvailable |-> FALSE, borrower |-> Null]

\* The book `id` as the server holds it: on loan to this user, to another
\* user, or available.
ServerBook(id) ==
  [loaded |-> TRUE,
   _id |-> id,
   isAvailable |-> id \notin Listed(server.borrowed) \cup server.taken,
   borrower |-> IF id \in Listed(server.borrowed) THEN user
                ELSE IF id \in server.taken THEN "other" ELSE Null]

\* The screen's request on its way to the server, and the server's answer
\* on its way back with the state the book had when the server answered.
Sent == [stage |-> "sent", ok |-> FALSE, data |-> NoBook]

Answered(ok, id) == [stage |-> "answered", ok |-> ok, data |-> ServerBook(id)]

otherThanDetail ==
  <<sessionVars, form, profileScreen, myBooks, catalog, calc>>

\* The screen is mounted by an authenticated user and its effect has called
\* fetchBook; `last` records the action that settled last and its answer.
InitDetail ==
  /\ AtRest
  /\ token = "t1"
  /\ user = "u1"
  /\ server \in {[borrowed |-> l, taken |-> t] :
                   l \in {<< >>, <<"b1">>, <<"b2">>, <<"b1", "b2">>},
                   t \in SUBSET Books}
  /\ Listed(server.borrowed) \cap server.taken = {}
  /\ \E id \in Books :
       detail =
         [screen |-> "detail", id |-> id, book |-> NoBook, loading |-> TRUE,
          actionLoading |-> FALSE, toast |-> "none", pc |-> "fetch",
          answer |-> Sent, last |-> "none", lastAnswer |-> Sent]
  /\ form = NotMounted
  /\ profileScreen = NotMounted
  /\ myBooks = NotMounted
  /\ catalog = NotMounted
  /\ calc = NoCall

\* The server answers GET /books/:id, or fails.
server_book(ok) ==
  /\ detail.pc = "fetch"
  /\ detail.answer.stage = "sent"
  /\ detail' = [detail EXCEPT !.answer = Answered(ok, detail.id)]
  /\ UNCHANGED <<otherThanDetail, server>>

\* fetchBook settles: setBook(response.data), or the error toast; finally.
fetchBook_settle ==
  /\ detail.pc = "fetch"
  /\ detail.answer.stage = "answered"
  /\ detail' =
       [detail EXCEPT
          !.book = IF detail.answer.ok THEN detail.answer.data ELSE @,
          !.toast = IF detail.answer.ok THEN @ ELSE "error",
          !.loading = FALSE, !.pc = "idle", !.answer = Sent,
          !.last = "fetch", !.lastAnswer = detail.answer]
  /\ UNCHANGED <<otherThanDetail, server>>

\* The action buttons are rendered for an authenticated user once the book
\* is loaded, and are disabled while actionLoading.
ActionEnabled ==
  /\ isAuthenticated
  /\ ~detail.loading
  /\ detail.book.loaded
  /\ ~detail.actionLoading
  /\ detail.pc = "idle"

\* Borrow is shown when the local copy is available.
handleBorrow_call ==
  /\ ActionEnabled
  /\ detail.book.isAvailable
  /\ detail' = [detail EXCEPT !.actionLoading = TRUE, !.pc = "borrow",
                              !.answer = Sent]
  /\ UNCHANGED <<otherThanDetail, server>>

\* The server handles POST /books/:id/borrow: it lends an available book
\* and answers success, or answers an error and changes nothing.
server_borrow(ok) ==
  /\ detail.pc = "borrow"
  /\ detail.answer.stage = "sent"
  /\ ok => ServerBook(detail.id).isAvailable
  /\ server' = IF ok
               THEN [server EXCEPT !.borrowed = Append(@, detail.id)]
               ELSE server
  /\ detail' = [detail EXCEPT !.answer = Answered(ok, detail.id)]
  /\ UNCHANGED otherThanDetail

\* The POST resolved: the local copy is patched, success toast; finally.
handleBorrow_ok ==
  /\ detail.pc = "borrow"
  /\ detail.answer.stage = "answered"
  /\ detail.answer.ok
  /\ detail' =
       [detail EXCEPT
          !.book = [@ EXCEPT !.isAvailable = FALSE, !.borrower = user],
          !.toast = "success", !.actionLoading = FALSE, !.pc = "idle",
          !.answer = Sent, !.last = "borrow", !.lastAnswer = detail.answer]
  /\ UNCHANGED <<otherThanDetail, server>>

\* The POST rejected: error toast; finally.
handleBorrow_catch ==
  /\ detail.pc = "borrow"
  /\ detail.answer.stage = "answered"
  /\ ~detail.answer.ok
  /\ detail' =
       [detail EXCEPT
          !.toast = "error", !.actionLoading = FALSE, !.pc = "idle",
          !.answer = Sent, !.last = "borrow", !.lastAnswer = detail.answer]
  /\ UNCHANGED <<otherThanDetail, server>>

\* Return is shown when the local copy is on loan to this user.
handleReturn_call ==
  /\ ActionEnabled
  /\ ~detail.book.isAvailable
  /\ detail.book.borrower = user
  /\ detail' = [detail EXCEPT !.actionLoading = TRUE, !.pc = "return",
                              !.answer = Sent]
  /\ UNCHANGED <<otherThanDetail, server>>

\* The server handles POST /books/:id/return: it ends this user's loan and
\* answers success, or answers an error and changes nothing.
server_detail_return(ok) ==
  /\ detail.pc = "return"
  /\ detail.answer.stage = "sent"
  /\ ok => detail.id \in Listed(server.borrowed)
  /\ server' = IF ok
               THEN [server EXCEPT !.borrowed = WithoutBook(@, detail.id)]
               ELSE server
  /\ detail' = [detail EXCEPT !.answer = Answered(ok, detail.id)]
  /\ UNCHANGED otherThanDetail

handleReturn_ok_keepsBorrower ==
  /\ detail.pc = "return"
  /\ detail.answer.stage = "answered"
  /\ detail.answer.ok
  /\ detail' =
       [detail EXCEPT
          !.book = [@ EXCEPT !.isAvailable = TRUE],
          !.toast = "success", !.actionLoading = FALSE, !.pc = "idle",
          !.answer = Sent, !.last = "return", !.lastAnswer = detail.answer]
  /\ UNCHANGED <<otherThanDetail, server>>

\* The POST resolved: the local copy is patched, success toast; finally.
handleReturn_ok ==
  /\ detail.pc = "return"
  /\ detail.answer.stage = "answered"
  /\ detail.answer.ok
  /\ detail' =
       [detail EXCEPT
          !.book = [@ EXCEPT !.isAvailable = TRUE, !.borrower = Null],
          !.toast = "success", !.actionLoading = FALSE, !.pc = "idle",
          !.answer = Sent, !.last = "return", !.lastAnswer = detail.answer]
  /\ UNCHANGED <<otherThanDetail, server>>

handleReturn_catch ==
  /\ detail.pc = "return"
  /\ detail.answer.stage = "answered"
  /\ ~detail.answer.ok
  /\ detail' =
       [detail EXCEPT
          !.toast = "error", !.actionLoading = FALSE, !.pc = "idle",
          !.answer = Sent, !.last = "return", !.lastAnswer = detail.answer]
  /\ UNCHANGED <<otherThanDetail, server>>

\* Another user borrows the book, or returns it, on another device.
other_borrows(id) ==
  /\ ServerBook(id).isAvailable
  /\ server' = [server EXCEPT !.taken = @ \cup {id}]
  /\ UNCHANGED <<otherThanDetail, detail>>

other_returns(id) ==
  /\ id \in server.taken
  /\ server' = [server EXCEPT !.taken = @ \ {id}]
  /\ UNCHANGED <<otherThanDetail, detail>>

NextDetail ==
  \/ \E ok \in BOOLEAN : server_book(ok)
  \/ fetchBook_settle
  \/ handleBorrow_call
  \/ \E ok \in BOOLEAN : server_borrow(ok)
  \/ handleBorrow_ok
  \/ handleBorrow_catch
  \/ handleReturn_call
  \/ \E ok \in BOOLEAN : server_detail_return(ok)
  \/ handleReturn_ok
  \/ handleReturn_catch
  \/ \E id \in Books : other_borrows(id)
  \/ \E id \in Books : other_returns(id)

SpecDetail == InitDetail /\ [][NextDetail]_vars

(* ------------------- login and register forms -------------------------- *)

\* z.string().min(6) on password, z.string().min(2) on name.
MinPassword == 6
MinName == 2

\* Strings are sequences of characters.
Letters == {"a", "b", "c", "m", "o", "x", "y"}

Str(n, c) == [i \in 1..n |-> c]

HasDotDot(s) == \E i \in 1..(Len(s) - 1) : s[i] = "." /\ s[i + 1] = "."

\* The local part of an address: letters and dots, not starting with a dot
\* and ending in a letter.
LocalPart(l) ==
  /\ Len(l) >= 1
  /\ \A i \in DOMAIN l : l[i] \in Letters \cup {"."}
  /\ l[1] # "."
  /\ l[Len(l)] # "."

\* The domain of an address: one or more non-empty labels, each followed by
\* a dot, then a top-level label of two letters or more.
DomainPart(d) ==
  /\ \A i \in DOMAIN d : d[i] \in Letters \cup {"."}
  /\ \E i \in DOMAIN d : d[i] = "."
  /\ d[1] # "."
  /\ ~HasDotDot(d)
  /\ \A i \in DOMAIN d : d[i] = "." => i <= Len(d) - 2

\* z.string().email(): local@domain with exactly one @ and no "..".
IsEmail(s) ==
  /\ Cardinality({i \in DOMAIN s : s[i] = "@"}) = 1
  /\ ~HasDotDot(s)
  /\ LET at == CHOOSE i \in DOMAIN s : s[i] = "@"
     IN  /\ LocalPart(SubSeq(s, 1, at - 1))
         /\ DomainPart(SubSeq(s, at + 1, Len(s)))

\* The fields of `data` that fail loginSchema / registerSchema.
loginSchema_emailOnly(data) ==
  {f \in {"email"} : ~IsEmail(data.email)}

loginSchema(data) ==
  {f \in {"email"} : ~IsEmail(data.email)}
    \cup {f \in {"password"} : Len(data.password) < MinPassword}

registerSchema(data) ==
  {f \in {"name"} : Len(data.name) < MinName}
    \cup {f \in {"email"} : ~IsEmail(data.email)}
    \cup {f \in {"password"} : Len(data.password) < MinPassword}

\* What the user has typed.
Emails ==
  { << >>, <<"a">>, <<"a", "@", "x">>, <<"@", "x", ".", "c", "o", "m">>,
    <<"a", "@", ".", "c", "o", "m">>, <<"a", "@", "x", ".", "c">>,
    <<"a", "@", "x", ".", ".", "c", "o", "m">>,
    <<".", "a", "@", "x", ".", "c", "o", "m">>,
    <<"a", ".", "@", "x", ".", "c", "o", "m">>,
    <<"a", "@", "@", "x", ".", "c", "o", "m">>,
    <<"a", " ", "b", "@", "x", ".", "c", "o", "m">>,
    <<"a", "x", ".", "c", "o", "m">>,
    <<"a", "@", "x", ".", "c", "o", "m">>,
    <<"a", ".", "b", "@", "x", ".", "c", "o", "m">>,
    <<"a", "@", "x", ".", "y", ".", "c", "o">> }

Passwords ==
  {Str(n, "p") : n \in 0..MaxPasswordLen} \cup {<<"s", "h", "o", "r", "t">>}

Names == {Str(n, "n") : n \in 0..MaxNameLen}

otherThanForm == <<profileScreen, myBooks, detail, server, catalog, calc>>

\* A form is mounted by an anonymous user and filled in; `called` records
\* that onSubmit has called login() or register().
InitForms ==
  /\ AtRest
  /\ token = Null
  /\ \/ \E e \in Emails, p \in Passwords :
          form = [screen |-> "login", pc |-> "idle", loading |-> FALSE,
                  data |-> [name |-> << >>, email |-> e, password |-> p],
                  errors |-> {}, toast |-> "none", called |-> FALSE]
     \/ \E n \in Names, e \in Emails, p \in Passwords :
          form = [screen |-> "register", pc |-> "idle", loading |-> FALSE,
                  data |-> [name |-> n, email |-> e, password |-> p],
                  errors |-> {}, toast |-> "none", called |-> FALSE]
  /\ profileScreen = NotMounted
  /\ myBooks = NotMounted
  /\ detail = NotMounted
  /\ server = NoLoans
  /\ catalog = NotMounted
  /\ calc = NoCall

\* handleSubmit(onSubmit) is pressed (the button is disabled while loading):
\* the resolver validates the data; with errors they are shown and onSubmit
\* is not called.
LoginScreen_handleSubmit_invalid ==
  /\ form.screen = "login"
  /\ ~form.loading
  /\ loginSchema(form.data) # {}
  /\ form' = [form EXCEPT !.errors = loginSchema(form.data)]
  /\ UNCHANGED <<sessionVars, otherThanForm>>

\* Valid data: onSubmit runs up to `await login(...)`.
LoginScreen_onSubmit ==
  /\ form.screen = "login"
  /\ ~form.loading
  /\ loginSchema(form.data) = {}
  /\ login_start
  /\ form' = [form EXCEPT !.errors = {}, !.loading = TRUE,
                          !.pc = "awaiting", !.called = TRUE]
  /\ UNCHANGED otherThanForm

\* login() settled: success toast, or the error's message; finally.
LoginScreen_settle ==
  /\ form.screen = "login"
  /\ form.pc = "awaiting"
  /\ pc["login"] = Idle
  /\ form' = [form EXCEPT !.loading = FALSE, !.pc = "idle",
                          !.toast = IF run.res = "ok" THEN "success"
                                    ELSE run.res]
  /\ UNCHANGED <<sessionVars, otherThanForm>>

RegisterScreen_handleSubmit_invalid ==
  /\ form.screen = "register"
  /\ ~form.loading
  /\ registerSchema(form.data) # {}
  /\ form' = [form EXCEPT !.errors = registerSchema(form.data)]
  /\ UNCHANGED <<sessionVars, otherThanForm>>

RegisterScreen_onSubmit ==
  /\ form.screen = "register"
  /\ ~form.loading
  /\ registerSchema(form.data) = {}
  /\ register_start
  /\ form' = [form EXCEPT !.errors = {}, !.loading = TRUE,
                          !.pc = "awaiting", !.called = TRUE]
  /\ UNCHANGED otherThanForm

\* register() settled: router.back(), or setError(...); finally.
RegisterScreen_settle ==
  /\ form.screen = "register"
  /\ form.pc = "awaiting"
  /\ pc["register"] = Idle
  /\ form' = [form EXCEPT !.loading = FALSE, !.pc = "idle",
                          !.toast = IF run.res = "ok" THEN "back"
                                    ELSE "Registration failed. Please try again."]
  /\ UNCHANGED <<sessionVars, otherThanForm>>

NextForms ==
  \/ LoginScreen_handleSubmit_invalid
  \/ LoginScreen_onSubmit
  \/ LoginScreen_settle
  \/ RegisterScreen_handleSubmit_invalid
  \/ RegisterScreen_onSubmit
  \/ RegisterScreen_settle
  \/ \E o \in {"login", "register"} : InterceptorRead(o)
  \/ \E o \in {"login", "register"} : InterceptorResume(o)
  \/ \E t \in Tokens : login_post_ok(t)
  \/ login_setItem
  \/ login_getMe
  \/ \E u \in Users : login_me_ok(u)
  \/ \E s \in {"post", "setItem", "me"}, st \in FailStatus : login_catch(s, st)
  \/ \E t \in Tokens : register_post_ok(t)
  \/ register_setItem
  \/ register_getMe
  \/ \E u \in Users : register_me_ok(u)
  \/ \E s \in {"post", "setItem", "me"}, st \in FailStatus : register_catch(s, st)

SpecForms == InitForms /\ [][NextForms]_vars

(* ------------- catalog pagination: LibraryScreen, HomeScreen ----------- *)

\* Books the server's catalog may hold, and loadBooks calls of one visit.
MaxBooks == 41

MaxLoads == 5

PAGE_SIZE == 20

\* The catalog's books are numbered in the order the server lists them;
\* odd-numbered ones are of genre "Drama", the others of "Fiction".
Genre(b) == IF b % 2 = 1 THEN "Drama" ELSE "Fiction"

\* GET /books?page=p&limit=PAGE_SIZE on a catalog of `total` books.
Page(p, total) ==
  [i \in 1..(IF total <= (p - 1) * PAGE_SIZE THEN 0
             ELSE IF total >= p * PAGE_SIZE THEN PAGE_SIZE
             ELSE total - (p - 1) * PAGE_SIZE) |-> (p - 1) * PAGE_SIZE + i]

\* filterBooks(genre) applied to books.
Filtered(books, genre) ==
  IF genre = "All" THEN books
  ELSE SelectSeq(books, LAMBDA b : Genre(b) = genre)

\* The pending api.get of a loadBooks call that read `page` = p.
PageRequest(p) == [page |-> p, stage |-> "sent", ok |-> FALSE, data |-> << >>]

\* The screens show a spinner instead of the list; Library shows a text
\* when the filtered list is empty.
ListRendered ==
  IF catalog.screen = "library"
  THEN /\ ~(loading \/ catalog.loading)
       /\ Len(Filtered(catalog.books, catalog.selectedGenre)) > 0
  ELSE ~(loading \/ (catalog.loading /\ catalog.initialLoad))

otherThanCatalog ==
  <<sessionVars, form, profileScreen, myBooks, detail, server, calc>>

\* loadBooks up to its await, as called with the state `c`; `asked` records
\* the pages requested so far.
loadBooks_call(c) ==
  LET first == IF c.screen = "library" THEN c.page = 1
               ELSE c.page = 1 /\ c.initialLoad
  IN  [c EXCEPT !.loading = IF first THEN TRUE ELSE @,
                !.loadingMore = IF first THEN @ ELSE TRUE,
                !.requests = Add(@, PageRequest(c.page)),
                !.asked = Append(@, c.page)]

\* The screen is mounted and its effect has called loadBooks; `total` is the
\* size of the server's catalog, `added` the pages whose books were put in
\* the list, `ended` whether a page shorter than PAGE_SIZE was received.
InitCatalog ==
  /\ AtRest
  /\ token \in {Null, "t1"}
  /\ user \in {Null, "u1"}
  /\ \E screen \in {"library", "home"}, total \in 0..MaxBooks :
       catalog =
         loadBooks_call(
           [screen |-> screen, books |-> << >>, selectedGenre |-> "All",
            page |-> 1, hasMore |-> TRUE, loading |-> TRUE,
            loadingMore |-> FALSE, initialLoad |-> TRUE,
            requests |-> EmptyBag, total |-> total, asked |-> << >>,
            added |-> << >>, ended |-> FALSE])
  /\ form = NotMounted
  /\ profileScreen = NotMounted
  /\ myBooks = NotMounted
  /\ detail = NotMounted
  /\ server = NoLoans
  /\ calc = NoCall

\* The list's end is reached while the list is rendered.
onEndReached ==
  /\ catalog.screen \in {"library", "home"}
  /\ ListRendered
  /\ Len(catalog.asked) < MaxLoads
  /\ catalog.hasMore
  /\ ~catalog.loadingMore
  /\ catalog.screen = "library" => catalog.selectedGenre = "All"
  /\ catalog' = loadBooks_call(catalog)
  /\ UNCHANGED otherThanCatalog

\* The server answers GET /books?page=..., or fails.
server_page(r, ok) ==
  /\ r.stage = "sent"
  /\ catalog' =
       [catalog EXCEPT
          !.requests =
            Add(Remove(@, r),
                [r EXCEPT !.stage = "answered", !.ok = ok,
                          !.data = IF ok THEN Page(r.page, catalog.total)
                                   ELSE << >>])]
  /\ UNCHANGED otherThanCatalog

loadBooks_ok_appendsTwice(r) ==
  /\ r.stage = "answered"
  /\ r.ok
  /\ catalog' =
       [catalog EXCEPT
          !.hasMore = IF Len(r.data) < PAGE_SIZE THEN FALSE ELSE @,
          !.books = @ \o r.data \o r.data,
          !.page = @ + 1,
          !.selectedGenre = "All",
          !.loading = FALSE, !.loadingMore = FALSE, !.initialLoad = FALSE,
          !.requests = Remove(@, r),
          !.added = Append(@, r.page),
          !.ended = @ \/ Len(r.data) < PAGE_SIZE]
  /\ UNCHANGED otherThanCatalog

\* The GET resolved: hasMore, the list and the page counter are updated;
\* finally.  Library appends and counts every page, and its effect on books
\* resets the filter when the list is not empty; Home replaces the list by
\* page 1 and does not count an empty page.
loadBooks_ok(r) ==
  /\ r.stage = "answered"
  /\ r.ok
  /\ catalog' =
       [catalog EXCEPT
          !.hasMore = IF Len(r.data) < PAGE_SIZE THEN FALSE ELSE @,
          !.books = IF catalog.screen = "home" /\ r.page = 1 THEN r.data
                    ELSE @ \o r.data,
          !.page = IF catalog.screen = "home" /\ Len(r.data) = 0 THEN @
                   ELSE @ + 1,
          !.selectedGenre =
            IF catalog.screen = "library" /\ Len(r.data) > 0 THEN "All"
            ELSE @,
          !.loading = FALSE, !.loadingMore = FALSE, !.initialLoad = FALSE,
          !.requests = Remove(@, r),
          !.added = Append(@, r.page),
          !.ended = @ \/ Len(r.data) < PAGE_SIZE]
  /\ UNCHANGED otherThanCatalog

\* The GET rejected: the error is logged; finally.
loadBooks_catch(r) ==
  /\ r.stage = "answered"
  /\ ~r.ok
  /\ catalog' =
       [catalog EXCEPT
          !.loading = FALSE, !.loadingMore = FALSE, !.initialLoad = FALSE,
          !.requests = Remove(@, r)]
  /\ UNCHANGED otherThanCatalog

\* A genre of the picker is chosen (Library).
filterBooks(genre) ==
  /\ catalog.screen = "library"
  /\ ~(loading \/ catalog.loading)
  /\ Len(catalog.books) > 0
  /\ \/ genre = "All"
     \/ \E i \in 1..Len(catalog.books) : Genre(catalog.books[i]) = genre
  /\ genre # catalog.selectedGenre
  /\ catalog' = [catalog EXCEPT !.selectedGenre = genre]
  /\ UNCHANGED otherThanCatalog

NextCatalog ==
  \/ onEndReached
  \/ \E r \in BagToSet(catalog.requests), ok \in BOOLEAN : server_page(r, ok)
  \/ \E r \in BagToSet(catalog.requests) : loadBooks_ok(r)
  \/ \E r \in BagToSet(catalog.requests) : loadBooks_catch(r)
  \/ \E genre \in {"All", "Drama", "Fiction"} : filterBooks(genre)

SpecCatalog == InitCatalog /\ [][NextCatalog]_vars

(* ------------------------ rows of the book grid ------------------------ *)

\* Longest list and largest group size groupBooks is applied to.
MaxListLen == 4

MaxGroupSize == 4

\* books.slice(start, end): the elements at indices start..end-1 (counted
\* from 0), end clipped to the length.
slice(books, start, end) ==
  SubSeq(books, start + 1, IF end < Len(books) THEN end ELSE Len(books))

\* The loop of groupBooks from index i on.
RECURSIVE groupRows(_, _, _)
groupRows(books, groupSize, i) ==
  IF i < Len(books)
  THEN <<slice(books, i, i + groupSize)>>
         \o groupRows(books, groupSize, i + groupSize)
  ELSE << >>

groupBooks_fromSecond(books, groupSize) == groupRows(books, groupSize, 1)

groupBooks(books, groupSize) == groupRows(books, groupSize, 0)

\* The lists of at most n books.
RECURSIVE ListsUpTo(_)
ListsUpTo(n) ==
  IF n = 0 THEN {<< >>}
  ELSE ListsUpTo(n - 1) \cup
         {Append(l, b) : l \in {k \in ListsUpTo(n - 1) : Len(k) = n - 1},
                         b \in Books}

\* A render is about to group `books` in rows of `groupSize`.
InitGroupBooks ==
  /\ AtRest
  /\ token = Null
  /\ \E books \in ListsUpTo(MaxListLen), groupSize \in 1..MaxGroupSize :
       calc = [fn |-> "groupBooks", books |-> books, groupSize |-> groupSize,
               returned |-> FALSE, rows |-> << >>]
  /\ form = NotMounted
  /\ profileScreen = NotMounted
  /\ myBooks = NotMounted
  /\ detail = NotMounted
  /\ server = NoLoans
  /\ catalog = NotMounted

\* const groupedBooks = groupBooks(filteredBooks, BOOKS_PER_ROW)
groupBooks_return ==
  /\ calc.fn = "groupBooks"
  /\ ~calc.returned
  /\ calc' = [calc EXCEPT !.returned = TRUE,
                          !.rows = groupBooks(calc.books, calc.groupSize)]
  /\ UNCHANGED <<sessionVars, form, profileScreen, myBooks, detail, server,
                 catalog>>

SpecGroupBooks == InitGroupBooks /\ [][groupBooks_return]_vars

(* --------------------------- due-date status -------------------------- *)

\* Days spanned by the instants the helpers are applied to.
MaxDays == 3

\* 1000 * 60 * 60 * 24: the milliseconds of a day.
MsPerDay == 1000 * 60 * 60 * 24

\* Math.ceil(a / b) for integers a and b > 0.
Ceil(a, b) == -((-a) \div b)

\* getDaysRemaining(dueDate) evaluated at the instant `today`; both are
\* Date.getTime() values.
getDaysRemaining(due, today) ==
  LET diffTime == due - today
  IN  Ceil(diffTime, MsPerDay)

getDueDateStatus(daysRemaining) ==
  IF daysRemaining < 0 THEN [text |-> "Overdue"]
  ELSE IF daysRemaining = 0 THEN [text |-> "Due today"]
  ELSE IF daysRemaining = 1 THEN [text |-> "Due tomorrow"]
  ELSE [text |-> "Due in N days", N |-> daysRemaining]

\* Instants in milliseconds: the start of a day, one millisecond later, noon
\* and the last millisecond of the day.
Instants ==
  {day * MsPerDay + ms :
     day \in 0..MaxDays, ms \in {0, 1, MsPerDay \div 2, MsPerDay - 1}}

\* A borrowed book due at `due` is about to be rendered at `today`.
InitDueDate ==
  /\ AtRest
  /\ token = Null
  /\ \E due \in Instants, today \in Instants :
       calc = [fn |-> "getDueDateStatus", due |-> due, today |-> today,
               returned |-> FALSE, status |-> [text |-> "none"]]
  /\ form = NotMounted
  /\ profileScreen = NotMounted
  /\ myBooks = NotMounted
  /\ detail = NotMounted
  /\ server = NoLoans
  /\ catalog = NotMounted

\* getDueDateStatus(getDaysRemaining(item.dueDate)) in the list item.
getDueDateStatus_return ==
  /\ calc.fn = "getDueDateStatus"
  /\ ~calc.returned
  /\ calc' =
       [calc EXCEPT
          !.returned = TRUE,
          !.status = getDueDateStatus(getDaysRemaining(calc.due, calc.today))]
  /\ UNCHANGED <<sessionVars, form, profileScreen, myBooks, detail, server,
                 catalog>>

SpecDueDate == InitDueDate /\ [][getDueDateStatus_return]_vars

(* ------------------------------ claims --------------------------------- *)

Anonymous == ~isAuthenticated /\ user = Null

\* The session is what it was when the operation recorded in run was called.
AsBeforeRun ==
  /\ token = run.token
  /\ user = run.user
  /\ isAuthenticated = run.isAuthenticated

\* C1: in every reachable state, isAuthenticated = true implies that user
\* is not null.
C1_AuthenticatedHasUser == isAuthenticated => user # Null

\* Authenticated, after operations overlapped, with a logout half done.
C1_Witness ==
  /\ isAuthenticated
  /\ user # Null
  /\ run.op = "none"
  /\ pc["logout"] = <<"removeItem", "res">>

\* C2: bootstrap run alone and resolved: with a persisted token and a
\* successful profile fetch the session is Authenticated with the fetched
\* profile and the token is still persisted; with a persisted token and a
\* failed profile fetch the session is Anonymous and the token is removed;
\* with no persisted token the session is Anonymous and no request was sent.
C2_Bootstrap ==
  (run.op = "boot" /\ run.res = "ok") =>
    /\ (Truthy(run.token) /\ run.profile # Null) =>
         (isAuthenticated /\ user = run.profile /\ token = run.token)
    /\ (Truthy(run.token) /\ run.stage = "me") =>
         (Anonymous /\ token = Null)
    /\ ~Truthy(run.token) =>
         (Anonymous /\ token = Null /\ run.requests = 0)

\* Bootstrap found token t1, the profile request was sent and answered 401.
C2_Witness ==
  /\ run.op = "boot"
  /\ run.res = "ok"
  /\ run.token = "t1"
  /\ run.stage = "me"
  /\ run.status = 401
  /\ run.requests = 1
  /\ token = Null

\* C3: a login run alone whose POST /auth/login the server rejects with 400
\* leaves token, user and isAuthenticated as they were and rejects with the
\* bad-credentials error.
C3_BadCredentials ==
  (run.op = "login" /\ run.stage = "post" /\ run.status = 400) =>
    (AsBeforeRun /\ run.res = "Invalid email or password")

\* A rejected login called while Authenticated.
C3_Witness ==
  /\ run.op = "login"
  /\ run.stage = "post"
  /\ run.status = 400
  /\ run.isAuthenticated
  /\ Truthy(run.token)
  /\ run.user # Null

\* C4: whenever a login run alone rejects, at whichever step, token, user
\* and isAuthenticated are what they were before the call (stated here for
\* runs in which no storage call has failed).
C4_NoPartialState ==
  (run.op = "login" /\ run.res \notin {"pending", "ok"} /\ ~storageFailed) =>
    AsBeforeRun

\* C5: whenever no session operation is in flight, a token is persisted if
\* and only if isAuthenticated is true (stated here for states in which no
\* storage call has failed and the last operation ran alone).
C5_StorageAgreesWithState ==
  (Quiescent /\ ~storageFailed /\ run.op # "none") =>
    (Truthy(token) <=> isAuthenticated)

\* C6: a logout run alone that completes leaves the session Anonymous with
\* no token persisted, from any state, the Anonymous one included, and it
\* completes without error unless a storage call failed.
C6_LogoutIdempotent ==
  (run.op = "logout" /\ run.res # "pending") =>
    /\ run.res = "ok" => (Anonymous /\ token = Null)
    /\ run.res # "ok" => storageFailed

\* A logout called in the Anonymous state with no token persisted.
C6_Witness ==
  /\ run.op = "logout"
  /\ run.res = "ok"
  /\ ~run.isAuthenticated
  /\ run.user = Null
  /\ run.token = Null
  /\ Anonymous
  /\ token = Null

\* C7: there is no state in which logout has removed the token while user
\* is still non-null or isAuthenticated is still true.
C7_LogoutAtomic ==
  (pc["logout"] = <<"removeItem", "res">> /\ token = Null) => Anonymous

\* C8: every dispatched request carries Authorization: Bearer T for the
\* token T persisted when its interceptor read the storage, and no
\* Authorization header when no token was persisted then.
C8_BearerHeader ==
  /\ [](\A o \in Ops : pc[o][2] = "wait" =>
          sent[o].Authorization =
            IF Truthy(itoken[o]) THEN Bearer(itoken[o]) ELSE NoHeader)
  /\ [][\A o \in Ops : (pc[o][2] = "read" /\ pc'[o][2] = "resume") =>
          itoken'[o] = token]_vars

\* An upload dispatched with the bearer header of the persisted token.
C8_Witness ==
  /\ pc["call"] = <<"req", "wait">>
  /\ sent["call"].method = "post"
  /\ sent["call"].data = "FormData"
  /\ token = "t2"
  /\ sent["call"].Authorization = Bearer("t2")

\* C9: once logout has completed, no request is dispatched carrying the
\* token that logout removed.
C9_NoStaleTokenAfterLogout ==
  \A o \in Ops : pc[o][2] = "wait" => o \notin stale

\* C10: a dispatched request whose body is not FormData has Content-Type
\* application/json whatever the caller supplied; one whose body is
\* FormData has the Content-Type the interceptor received.
C10_ContentType ==
  \A o \in Ops : pc[o][2] = "wait" =>
    sent[o].ContentType =
      IF IsFormData(config[o].data) THEN config[o].ContentType
      ELSE "application/json"

\* The profile image upload keeps its multipart Content-Type.
C10_Witness ==
  /\ pc["call"] = <<"req", "wait">>
  /\ IsFormData(config["call"].data)
  /\ sent["call"].ContentType = "multipart/form-data"

\* A login or register run alone that has rejected.
Rejected(o) == run.op = o /\ run.res \notin {"pending", "ok"}

C13_RegisterContract ==
  /\ (run.op = "register" /\ run.res = "ok") =>
       (isAuthenticated /\ user = run.profile /\ Truthy(token))
  /\ (Rejected("register") /\ ~storageFailed) => AsBeforeRun

\* C20: loading is true whenever a bootstrap, login or register is in
\* flight.
C20_LoadingWhileInFlight ==
  (\E o \in {"boot", "login", "register"} : pc[o] \notin {Idle, Done}) =>
    loading

\* C11: the error the response interceptor rejects with carries the status
\* it received, and the request it received with the retry mark set when
\* that status is 401 and the mark was not set, unchanged otherwise; the
\* step in which the interceptor runs leaves the persisted token as it is and
\* dispatches or starts no request, and the caller's next step is its catch.
C11_ResponseInterceptor ==
  /\ [](pc["call"] = <<"req", "rejected">> =>
          /\ delivered.error.status = delivered.raised.status
          /\ delivered.error.config =
               IF delivered.raised.status = 401
               THEN [delivered.raised.config EXCEPT !._retry = TRUE]
               ELSE delivered.raised.config)
  /\ [][(pc["call"][2] # "rejected" /\ pc'["call"][2] = "rejected") =>
          /\ token' = token
          /\ sent' = sent
          /\ \A o \in Ops \ {"call"} : pc'[o] = pc[o]]_vars
  /\ [][(pc["call"][2] = "rejected" /\ pc'["call"] # pc["call"]) =>
          (pc'["call"] = Idle /\ token' = token)]_vars

\* A request sent with the bearer token was answered 401: the error reaches
\* the catch with the request marked retried and the token still persisted.
C11_Witness ==
  /\ pc["call"] = <<"req", "rejected">>
  /\ delivered.raised.status = 401
  /\ ~delivered.raised.config._retry
  /\ delivered.error.config._retry
  /\ delivered.error.config.Authorization = Bearer("t1")
  /\ token = "t1"

\* C14: when handleSaveProfile has finished in the Authenticated state, a PUT /auth/me that succeeded
\* has replaced the session's user by the representation the server returned
\* and the screen shows success; one that failed, or was never sent, left
\* the user as it was and the screen shows the error.
C14_UpdateProfile ==
  (isAuthenticated /\ profileScreen.screen = "profile"
     /\ profileScreen.pc = "idle") =>
    /\ profileScreen.put = "ok" =>
         (user = profileScreen.response /\ profileScreen.toast = "success")
    /\ profileScreen.put \in {"failed", "not sent"} =>
         (user = profileScreen.before /\ profileScreen.toast = "error")

\* The return requests for bookId that have not settled yet.
ReturnsInFlight(bookId) ==
  LET of == {r \in BagToSet(myBooks.requests) :
               r.kind = "return" /\ r.book = bookId}
  IN  BagCardinality([r \in of |-> myBooks.requests[r]])

\* The request r settles in this step.
Settles(r) ==
  /\ r.stage = "answered"
  /\ CopiesIn(r, myBooks'.requests) < CopiesIn(r, myBooks.requests)

\* C15: while a return request for a book is on its way to the server, the
\* book is absent from the local borrowed list.
C15_OptimisticReturn ==
  \A r \in Pending("return", "sent") : r.book \notin Listed(myBooks.books)

\* C16: the step in which a failed return of X settles calls a fetch of
\* the borrowed list; the server answers a fetch with the loans it holds;
\* and the step in which a fetch settles successfully makes the local list
\* the list the server returned.
C16_ReconciliationFetch ==
  /\ [][\A r \in BagToSet(myBooks.requests) :
          (r.kind = "return" /\ ~r.ok /\ Settles(r)) =>
            CopiesIn(Request("fetch", Null, r.book), myBooks'.requests) =
              CopiesIn(Request("fetch", Null, r.book), myBooks.requests) + 1]_vars
  /\ [][\A r \in BagToSet(myBooks'.requests) :
          (/\ r.kind = "fetch" /\ r.stage = "answered" /\ r.ok
           /\ CopiesIn(r, myBooks'.requests) > CopiesIn(r, myBooks.requests))
            => r.data = server.borrowed]_vars
  /\ [][\A r \in BagToSet(myBooks.requests) :
          (r.kind = "fetch" /\ r.ok /\ Settles(r)) =>
            myBooks'.books = r.data]_vars

\* The fetch called after a failed return of b1 has settled: b1, still on
\* loan on the server, is in the local list, which is the list returned.
C16_Witness ==
  /\ myBooks.screen = "myBooks"
  /\ myBooks.last.kind = "fetch"
  /\ myBooks.last.after = "b1"
  /\ myBooks.last.ok
  /\ myBooks.books = myBooks.last.data
  /\ "b1" \in Listed(myBooks.books)
  /\ "b1" \in Listed(server.borrowed)
  /\ myBooks.toast = "error"

\* C17: for every book, while a return request for it is in flight its
\* Return control is disabled and no second return request for it is in
\* flight.
C17_OneReturnPerBook ==
  \A b \in Books :
    ReturnsInFlight(b) > 0 =>
      (myBooks.returningBookId = b /\ ReturnsInFlight(b) = 1)

\* C18: once the handling of a failed borrow or return has completed, the
\* local copy of the book equals the book as the server holds it (stated
\* here for states in which the server still holds the book as it did when
\* it answered the failed request).
C18_ReconciledAfterFailure ==
  (/\ detail.screen = "detail"
   /\ detail.pc = "idle"
   /\ detail.last \in {"borrow", "return"}
   /\ ~detail.lastAnswer.ok
   /\ detail.lastAnswer.data = ServerBook(detail.id)) =>
    detail.book = ServerBook(detail.id)

\* C19: with a login form whose email is not a valid address or whose
\* password has fewer than 6 characters, login() has not been called and no
\* request exists; with a register form whose name has fewer than 2
\* characters, whose email is not a valid address or whose password has
\* fewer than 6 characters, register() has not been called and no request
\* exists; a@x.com is a valid address and "short" is too short.
C19_ValidationGate ==
  /\ (/\ form.screen = "login"
      /\ ~IsEmail(form.data.email) \/ Len(form.data.password) < 6) =>
       (~form.called /\ InFlight = {} /\ token = Null)
  /\ (/\ form.screen = "register"
      /\ \/ Len(form.data.name) < 2
         \/ ~IsEmail(form.data.email)
         \/ Len(form.data.password) < 6) =>
       (~form.called /\ InFlight = {} /\ token = Null)
  /\ IsEmail(<<"a", "@", "x", ".", "c", "o", "m">>)
  /\ Len(<<"s", "h", "o", "r", "t">>) < 6

\* The login form was submitted with a@x.com and "short": the password error
\* is shown and login() was not called.
C19_Witness ==
  /\ form.screen = "login"
  /\ form.data.email = <<"a", "@", "x", ".", "c", "o", "m">>
  /\ form.data.password = <<"s", "h", "o", "r", "t">>
  /\ form.errors = {"password"}
  /\ ~form.called
  /\ pc["login"] = Idle

\* C21: a bootstrap that ran alone never rejects: whatever fails, it ends
\* without an error reaching its caller.
C21_BootstrapNeverThrows ==
  run.op = "boot" => run.res # "rejected"

\* C22: whenever the request that settled last is a fetch that succeeded,
\* the local list is that response's payload, whichever fetches were issued
\* before or after it and whatever the server holds by now.
C22_LastResponseWins ==
  (myBooks.last.kind = "fetch" /\ myBooks.last.ok) =>
    myBooks.books = myBooks.last.data

\* Two fetches overlap: the one the server answered after b1's return has
\* settled and the list is its payload, while the one answered before the
\* return, still carrying b1, has yet to settle.
C22_Witness ==
  /\ myBooks.last.kind = "fetch"
  /\ myBooks.last.ok
  /\ myBooks.last.data = <<"b2">>
  /\ myBooks.books = <<"b2">>
  /\ \E r \in Pending("fetch", "answered") :
       r.ok /\ r.data = <<"b1", "b2">>

\* C25: a book whose return has succeeded and settled is not in the local
\* list.
C25_ReturnedStaysGone ==
  \A b \in Books :
    (b \notin Listed(server.borrowed) /\ ReturnsInFlight(b) = 0) =>
      b \notin Listed(myBooks.books)

\* C23: the persisted token changes only in the step in which a setItem of
\* login or register takes effect (to the token that call holds) or a
\* removeItem of logout or of bootstrap's catch takes effect (to none); the
\* steps of the interceptors and of a screen's call leave it as it is.
C23_SingleWriter ==
  /\ [][token' # token =>
          \/ \E o \in {"login", "register"} :
               /\ pc[o] = <<"setItem", "eff">>
               /\ pc'[o] = <<"setItem", "res">>
               /\ token' = held[o]
          \/ \E o \in {"logout", "boot"} :
               /\ pc[o] = <<"removeItem", "eff">>
               /\ pc'[o] = <<"removeItem", "res">>
               /\ token' = Null]_vars
  /\ [][(\E o \in Ops : pc[o][2] \in {"read", "resume", "wait"}
                          /\ pc'[o] # pc[o]) => token' = token]_vars
  /\ [][pc'["call"] # pc["call"] => token' = token]_vars

\* A screen's request dispatched with token t1 is pending while login has
\* just persisted t2.
C23_Witness ==
  /\ pc["login"] = <<"setItem", "res">>
  /\ token = "t2"
  /\ pc["call"] = <<"req", "wait">>
  /\ sent["call"].Authorization # NoHeader
  /\ sent["call"].Authorization = Bearer("t1")


\* C24: the profile request of a login or register call is made with the
\* token that call persisted: the value its interceptor reads from the
\* storage is the token of the credential response (the header is built from
\* that value, see C8).
C24_ProfileRequestCarriesNewToken ==
  [][\A o \in {"login", "register"} :
       (pc[o] = <<"me", "read">> /\ pc'[o] = <<"me", "resume">>)
         => itoken'[o] = held[o]]_vars


\* The screen's borrow or return request settles in this step.
DetailSettles(kind, ok) ==
  /\ detail.pc = kind
  /\ detail'.pc = "idle"
  /\ detail.answer.ok = ok

\* The fields of the local book other than isAvailable and borrower.
OtherFieldsKept ==
  /\ DOMAIN detail'.book = DOMAIN detail.book
  /\ \A f \in DOMAIN detail.book \ {"isAvailable", "borrower"} :
       detail'.book[f] = detail.book[f]

\* C26: a borrow that succeeded changes the local book only by isAvailable
\* = false and borrower = the user's id, a return that succeeded only by
\* isAvailable = true and no borrower; a borrow or return that failed leaves
\* the local book as it was; borrow is started on an available book only, so
\* that a return after it restores that availability.
C26_LocalPatch ==
  /\ [][DetailSettles("borrow", TRUE) =>
          /\ detail'.book.isAvailable = FALSE
          /\ detail'.book.borrower = user
          /\ OtherFieldsKept]_vars
  /\ [][DetailSettles("return", TRUE) =>
          /\ detail'.book.isAvailable = TRUE
          /\ detail'.book.borrower = Null
          /\ OtherFieldsKept]_vars
  /\ [][(DetailSettles("borrow", FALSE) \/ DetailSettles("return", FALSE)) =>
          detail'.book = detail.book]_vars
  /\ [][(detail.pc = "idle" /\ detail'.pc = "borrow") =>
          detail.book.isAvailable = TRUE]_vars

\* A return has succeeded on the screen: the local copy is available again
\* and has no borrower.
C26_Witness ==
  /\ detail.screen = "detail"
  /\ detail.last = "return"
  /\ detail.lastAnswer.ok
  /\ detail.toast = "success"
  /\ detail.book = [loaded |-> TRUE, _id |-> detail.id, isAvailable |-> TRUE,
                    borrower |-> Null]


\* C27: on the Library and Home screens at most one page request is in
\* flight; a request in flight is for the page after the pages already
\* added, which are pages 1, 2, ... each added once, so that the list holds
\* the catalog's books in order without repetition; the step in which a
\* failed request settles leaves the list and the page counter as they were;
\* and once a page shorter than PAGE_SIZE was received no page is requested.
C27_Pagination ==
  /\ [](catalog.screen \in {"library", "home"} =>
          /\ BagCardinality(catalog.requests) <= 1
          /\ catalog.asked[1] = 1
          /\ \A r \in BagToSet(catalog.requests) :
               r.page = Len(catalog.added) + 1
          /\ \A i \in 1..(Len(catalog.asked) - 1) :
               catalog.asked[i + 1] \in {catalog.asked[i], catalog.asked[i] + 1}
          /\ \A i \in 1..Len(catalog.added) : catalog.added[i] = i
          /\ \A i \in 1..Len(catalog.books) : catalog.books[i] = i)
  /\ [][(\E r \in BagToSet(catalog.requests) :
           /\ r.stage = "answered"
           /\ ~r.ok
           /\ catalog'.requests = Remove(catalog.requests, r)) =>
          /\ catalog'.books = catalog.books
          /\ catalog'.page = catalog.page]_vars
  /\ [][(catalog.screen # "none" /\ catalog.ended) =>
          catalog'.asked = catalog.asked]_vars

\* Library has loaded a catalog of 41 books in three pages, the second of
\* which failed once and was asked again.
C27_Witness ==
  /\ catalog.screen = "library"
  /\ catalog.total = 41
  /\ Len(catalog.books) = 41
  /\ catalog.asked = <<1, 2, 2, 3>>
  /\ ~catalog.hasMore
  /\ catalog.requests = EmptyBag


\* The rows put one after the other.
RECURSIVE Concatenation(_)
Concatenation(rows) ==
  IF rows = << >> THEN << >> ELSE Head(rows) \o Concatenation(Tail(rows))

\* C28: the rows groupBooks(books, n) returns, for n >= 1, give back books
\* when concatenated in order; every row has between 1 and n books and every
\* row but the last exactly n; there are ceil(length / n) rows.
C28_GroupBooks ==
  (calc.fn = "groupBooks" /\ calc.returned) =>
    LET n == calc.groupSize
        rows == calc.rows
    IN  /\ Concatenation(rows) = calc.books
        /\ \A i \in 1..Len(rows) : Len(rows[i]) \in 1..n
        /\ \A i \in 1..(Len(rows) - 1) : Len(rows[i]) = n
        /\ Len(rows) = (Len(calc.books) + n - 1) \div n

\* Four books in rows of three: a full row and a last row of one.
C28_Witness ==
  /\ calc.fn = "groupBooks"
  /\ calc.returned
  /\ calc.books = <<"b1", "b2", "b2", "b1">>
  /\ calc.groupSize = 3
  /\ calc.rows = <<(<<"b1", "b2", "b2">>), (<<"b1">>)>>


\* C29: with the due instant d and the current instant t in milliseconds,
\* the status is "Overdue" whenever d is earlier than t, "Due today" only
\* when d is not earlier than t, "Due tomorrow" when exactly one day
\* remains, and "Due in N days" only with N >= 2.
C29_DueDateStatus ==
  (calc.fn = "getDueDateStatus" /\ calc.returned) =>
    /\ calc.due < calc.today => calc.status.text = "Overdue"
    /\ calc.status.text = "Due today" => calc.due >= calc.today
    /\ calc.due - calc.today = MsPerDay => calc.status.text = "Due tomorrow"
    /\ calc.status.text = "Due in N days" => calc.status.N >= 2

====
